---- MODULE Spec2Model ----
(***************************************************************************)
(* Model of two pieces of fstools-rs:                                      *)
(*   - format/src/flver/mod.rs: the endian-generic, zero-copy FLVER header *)
(*     reader (Flver::from, Flver::parse, Flver::dummy and the header      *)
(*     accessors);                                                         *)
(*   - cli/src/bin/dcx-extract.rs: the extraction tool's main, including   *)
(*     the normalisation of archive entry paths.                           *)
(* SpecFlver runs Flver::from on bounded byte buffers, SpecExtract runs    *)
(* main on bounded archives.                                               *)
(***************************************************************************)
EXTENDS Integers, Sequences, FiniteSets, TLC

VARIABLES
    data,      \* the byte buffer handed to Flver::from (a sequence of 0..255)
    fpc,       \* position of Flver::from in its pipeline
    order,     \* the byte-order tag chosen at mod.rs:68-73 ("LE", "BE", "none")
    inner,     \* the FlverInner under construction (header and dummys views)
    result,    \* what Flver::from hands to its caller
    failed,    \* the stage of Flver::from that failed ("none" if none did)
    stages,    \* the stages of Flver::from completed so far, in order
    access,    \* outcome of the last Flver::dummy(index) call
    mpc,       \* position of dcx-extract's main
    mresult,   \* how main ended ("Running", "Ok", "Err", "Panic")
    mfailed,   \* the stage of main that failed ("none" if none did)
    mstages,   \* the stages of main completed so far, in order
    reads,     \* number of decoder.read_to_end calls performed
    parsed,    \* whether BND4::from_reader has been called
    files,     \* bnd4.files: the entry paths, in on-disk order
    idx,       \* the entry the `for` loop is at (from 1)
    outPath,   \* output_path of the current entry
    dirs,      \* directories created by create_dir_all
    created,   \* files created by File::create
    writes     \* every write_all performed: [path, entry]

fvars == <<data, fpc, order, inner, result, failed, stages, access>>

evars == <<mpc, mresult, mfailed, mstages, reads, parsed, files, idx, outPath,
           dirs, created, writes>>

vars == <<fvars, evars>>

----------------------------------------------------------------------------
(* Bounds of the model.                                                    *)

\* Size in bytes of one FlverDummyData record.  The record type lives in
\* flver/dummy.rs; the reader only uses its size, and every statement below
\* is parametric in it.
RecordSize == 3

\* Largest dummy count a well-sized input buffer is built for.
MaxCount == 2

\* Largest index passed to Flver::dummy.
MaxIndex == 3

----------------------------------------------------------------------------
(* Layout of FlverHeaderData (mod.rs:117-146).                             *)

\* b"FLVER\0"
Magic == <<70, 76, 86, 69, 82, 0>>

\* [0x4c, 0x00], the only marker the code compares against
LittleMarker == <<76, 0>>

\* `&data[..8]`: the prefix holding the magic and the endianness marker
PrefixLen == Len(Magic) + Len(LittleMarker)

\* size_of::<FlverHeaderData<O>>(): repr(packed), so the sum of the fields
HeaderSize ==
    8 + (8 * 4) + (3 * 4) + (3 * 4) + 4 + 4 + (4 * 1) + 4 + (3 * 4)
      + (2 * 1) + 10 + 4 + 20

\* offset of `version`: right after padding0: Padding<8>
VersionOffset == 8

\* offset of `dummy_count`: after version, data_offset, data_length
DummyCountOffset == VersionOffset + (3 * 4)

----------------------------------------------------------------------------
(* Byte-order aware integers (zerocopy U32<O>).                            *)

\* Faulty variant: decodes in one fixed (host) order whatever the tag.
GetU32AnyOrderLE(ord, d, off) ==
    d[off + 1] + (256 * d[off + 2]) + (65536 * d[off + 3])
               + (16777216 * d[off + 4])

\* U32<O>::get() on the four bytes at byte offset off of d
GetU32(ord, d, off) ==
    IF ord = "LE"
    THEN d[off + 1] + (256 * d[off + 2]) + (65536 * d[off + 3])
                    + (16777216 * d[off + 4])
    ELSE d[off + 4] + (256 * d[off + 3]) + (65536 * d[off + 2])
                    + (16777216 * d[off + 1])

\* the inverse, used to build input buffers
EncodeU32(ord, v) ==
    LET b0 == v % 256
        b1 == (v \div 256) % 256
        b2 == (v \div 65536) % 256
        b3 == (v \div 16777216) % 256
    IN  IF ord = "LE" THEN <<b0, b1, b2, b3>> ELSE <<b3, b2, b1, b0>>

----------------------------------------------------------------------------
(* The casts of Flver::parse (mod.rs:52-59).                               *)

NoInner ==
    [some |-> FALSE,
     header |-> [off |-> 0, len |-> 0],
     dummys |-> [off |-> 0, count |-> 0]]

\* Ref::<&[u8], FlverHeaderData<O>>::new_from_prefix(data): the header type
\* is packed (alignment 1), so the cast fails exactly on a short buffer.
NewFromPrefix(d) == Len(d) >= HeaderSize

\* Faulty variant: rejects an array that fits the buffer exactly.
SliceFromPrefixStrict(restLen, count) == count * RecordSize < restLen

\* FlverDummyData::<O>::slice_from_prefix(dummy_bytes, count): None when
\* count * size_of::<T>() overflows or exceeds the bytes given.  A u32 count
\* times the record size cannot overflow a 64-bit usize, and on a narrower
\* usize an overflowing product exceeds every buffer length, so the outcome
\* is that of the mathematical comparison.
SliceFromPrefix(restLen, count) == count * RecordSize <= restLen

\* Flver::parse::<O>(data)
Parse(ord, d) ==
    IF ~NewFromPrefix(d) THEN NoInner
    ELSE LET dummy_count == GetU32(ord, d, DummyCountOffset)
         IN  IF ~SliceFromPrefix(Len(d) - HeaderSize, dummy_count)
             THEN NoInner
             ELSE [some |-> TRUE,
                   header |-> [off |-> 0, len |-> HeaderSize],
                   dummys |-> [off |-> HeaderSize, count |-> dummy_count]]

----------------------------------------------------------------------------
(* Results of Flver::from (mod.rs:61-76).                                  *)

Pending == [kind |-> "Pending", variant |-> "none", err |-> "none", view |-> NoInner]

\* the slice expression `&data[..8]` panics on a buffer of fewer than 8 bytes
SlicePanic ==
    [kind |-> "Panic", variant |-> "none",
     err |-> "range end index 8 out of range for slice", view |-> NoInner]

\* read_magic (io_ext, ReadFormatsExt) reports a wrong magic as an io::Error
MagicError ==
    [kind |-> "Err", variant |-> "none", err |-> "MalformedHeader", view |-> NoInner]

\* std::io::Error::other("data buffer was not unaligned"), mod.rs:75
ParseError ==
    [kind |-> "Err", variant |-> "none",
     err |-> "data buffer was not unaligned", view |-> NoInner]

OkFlver(ord, in) == [kind |-> "Ok", variant |-> ord, err |-> "none", view |-> in]

\* header.read_magic(b"FLVER\0") on the 8-byte prefix
ReadMagicOk(d) == SubSeq(d, 1, Len(Magic)) = Magic

\* the two bytes read_exact leaves in `endianness`
Marker(d) == SubSeq(d, Len(Magic) + 1, PrefixLen)

\* is_little_endian selects the variant: every other marker is BigEndian
Endianness(d) == IF Marker(d) = LittleMarker THEN "LE" ELSE "BE"

\* Flver::from as a function of its argument
From(d) ==
    IF Len(d) < PrefixLen THEN SlicePanic
    ELSE IF ~ReadMagicOk(d) THEN MagicError
    ELSE LET in == Parse(Endianness(d), d)
         IN  IF in.some THEN OkFlver(Endianness(d), in) ELSE ParseError

\* FlverHeader::version / dummy_count through Deref for Flver (mod.rs:22-31,
\* 155-163): the header of the variant, decoded with the variant's order
Version(flver, d) == GetU32(flver.variant, d, flver.view.header.off + VersionOffset)

DummyCount(flver, d) ==
    GetU32(flver.variant, d, flver.view.header.off + DummyCountOffset)

\* Faulty variant: an unchecked index (get_unchecked).
DummyIndexUnchecked(in, index) ==
    [kind |-> "Record", index |-> index,
     off |-> in.dummys.off + (index * RecordSize)]

\* FlverInner::dummy (mod.rs:108-112): `&self.dummys[index]`, a bounds-checked
\* slice index that panics when index >= len
DummyIndex(in, index) ==
    IF index < in.dummys.count
    THEN [kind |-> "Record", index |-> index,
          off |-> in.dummys.off + (index * RecordSize)]
    ELSE [kind |-> "Panic", index |-> index, off |-> 0]

NoAccess == [kind |-> "none", index |-> 0, off |-> 0]

----------------------------------------------------------------------------
(* Input buffers.                                                          *)

MaxLen == HeaderSize + (MaxCount * RecordSize) + 1

FullBuffer(magic, marker, enc, version, count) ==
    [i \in 1..MaxLen |->
        IF i <= Len(Magic) THEN magic[i]
        ELSE IF i <= PrefixLen THEN marker[i - Len(Magic)]
        ELSE IF i \in (VersionOffset + 1)..(VersionOffset + 4)
             THEN EncodeU32(enc, version)[i - VersionOffset]
        ELSE IF i \in (DummyCountOffset + 1)..(DummyCountOffset + 4)
             THEN EncodeU32(enc, count)[i - DummyCountOffset]
        ELSE 0]

Magics == {Magic, <<70, 76, 86, 69, 82, 1>>}
Markers == {LittleMarker, <<66, 0>>, <<0, 0>>, <<76, 1>>}
Versions == {1, 131098}
Lens ==
    {0, 5, PrefixLen - 1, PrefixLen, 100, HeaderSize - 1}
    \cup {HeaderSize + (k * RecordSize) + dl : k \in 0..MaxCount, dl \in {-1, 0, 1}}

Buffers ==
    {SubSeq(FullBuffer(m, mk, enc, v, c), 1, n) :
        m \in Magics, mk \in Markers, enc \in {"LE", "BE"},
        v \in Versions, c \in 0..MaxCount, n \in Lens}

----------------------------------------------------------------------------
(* Flver::from, stage by stage.                                            *)

\* main has not started
IdleExtract ==
    /\ mpc = "Idle"
    /\ mresult = "Running"
    /\ mfailed = "none"
    /\ mstages = <<>>
    /\ reads = 0
    /\ parsed = FALSE
    /\ files = <<>>
    /\ idx = 1
    /\ outPath = <<>>
    /\ dirs = {}
    /\ created = {}
    /\ writes = {}

InitFlver ==
    /\ data \in Buffers
    /\ fpc = "Start"
    /\ order = "none"
    /\ inner = NoInner
    /\ result = Pending
    /\ failed = "none"
    /\ stages = <<>>
    /\ access = NoAccess
    /\ IdleExtract

\* mod.rs:62-63
ReadMagic ==
    /\ fpc = "Start"
    /\ \/ /\ Len(data) < PrefixLen
          /\ fpc' = "Panic"
          /\ result' = SlicePanic
          /\ failed' = "Slice"
          /\ UNCHANGED stages
       \/ /\ Len(data) >= PrefixLen
          /\ ~ReadMagicOk(data)
          /\ fpc' = "Error"
          /\ result' = MagicError
          /\ failed' = "MagicValidated"
          /\ UNCHANGED stages
       \/ /\ Len(data) >= PrefixLen
          /\ ReadMagicOk(data)
          /\ fpc' = "MagicValidated"
          /\ stages' = Append(stages, "MagicValidated")
          /\ UNCHANGED <<result, failed>>
    /\ UNCHANGED <<data, order, inner, access>>
    /\ UNCHANGED evars

\* mod.rs:65-69: read_exact of the two bytes left in the prefix cannot fail
DetectEndianness ==
    /\ fpc = "MagicValidated"
    /\ order' = Endianness(data)
    /\ fpc' = "EndiannessDetected"
    /\ stages' = Append(stages, "EndiannessDetected")
    /\ UNCHANGED <<data, inner, result, failed, access>>
    /\ UNCHANGED evars

\* mod.rs:53-54 (reached through 70 or 72), failure surfaced at 75
CastHeader ==
    /\ fpc = "EndiannessDetected"
    /\ \/ /\ NewFromPrefix(data)
          /\ fpc' = "HeaderCast"
          /\ stages' = Append(stages, "HeaderCast")
          /\ UNCHANGED <<result, failed>>
       \/ /\ ~NewFromPrefix(data)
          /\ fpc' = "Error"
          /\ result' = ParseError
          /\ failed' = "HeaderCast"
          /\ UNCHANGED stages
    /\ UNCHANGED <<data, order, inner, access>>
    /\ UNCHANGED evars

\* Faulty variant: a failed dummy-array cast still hands out the header.
CastDummysKeepGoing ==
    /\ fpc = "HeaderCast"
    /\ inner' = [some |-> TRUE,
                 header |-> [off |-> 0, len |-> HeaderSize],
                 dummys |-> [off |-> HeaderSize, count |-> 0]]
    /\ fpc' = "TrailingArraysCast"
    /\ stages' = IF Parse(order, data).some
                 THEN Append(stages, "TrailingArraysCast") ELSE stages
    /\ UNCHANGED <<data, order, result, failed, access>>
    /\ UNCHANGED evars

\* mod.rs:55-58, failure surfaced at 75
CastDummys ==
    /\ fpc = "HeaderCast"
    /\ \/ /\ Parse(order, data).some
          /\ inner' = Parse(order, data)
          /\ fpc' = "TrailingArraysCast"
          /\ stages' = Append(stages, "TrailingArraysCast")
          /\ UNCHANGED <<result, failed>>
       \/ /\ ~Parse(order, data).some
          /\ fpc' = "Error"
          /\ result' = ParseError
          /\ failed' = "TrailingArraysCast"
          /\ UNCHANGED <<inner, stages>>
    /\ UNCHANGED <<data, order, access>>
    /\ UNCHANGED evars

\* mod.rs:69-75: Some(inner) wrapped in the variant and returned
Finish ==
    /\ fpc = "TrailingArraysCast"
    /\ result' = OkFlver(order, inner)
    /\ fpc' = "Ready"
    /\ UNCHANGED <<data, order, inner, failed, stages, access>>
    /\ UNCHANGED evars

\* Flver::dummy(index) on the returned view (mod.rs:33-40)
Dummy(index) ==
    /\ fpc = "Ready"
    /\ access' = DummyIndex(result.view, index)
    /\ UNCHANGED <<data, fpc, order, inner, result, failed, stages>>
    /\ UNCHANGED evars

NextFlver ==
    \/ ReadMagic
    \/ DetectEndianness
    \/ CastHeader
    \/ CastDummys
    \/ Finish
    \/ \E index \in 0..MaxIndex : Dummy(index)

SpecFlver == InitFlver /\ [][NextFlver]_vars

----------------------------------------------------------------------------
(* Bounds of the extraction model.                                         *)

\* Largest number of entries of an archive.
MaxEntries == 2

\* Largest number of components after the drive prefix of an entry path.
MaxComponents == 2

----------------------------------------------------------------------------
(* Entry paths and their normalisation (dcx-extract.rs:44-47).             *)
(* A path is a sequence of one-character strings.                          *)

\* the literal "N:\\"
DrivePrefix == <<"N", ":", "\\">>

\* str::replace(pat, to): every non-overlapping match, left to right
RECURSIVE Replace(_, _, _)
Replace(s, pat, to) ==
    IF Len(s) < Len(pat) THEN s
    ELSE IF SubSeq(s, 1, Len(pat)) = pat
         THEN to \o Replace(SubSeq(s, Len(pat) + 1, Len(s)), pat, to)
         ELSE <<s[1]>> \o Replace(Tail(s), pat, to)

\* entry.path.replace("N:\\", "").replace('\\', "/")
Trimmed(path) == Replace(Replace(path, DrivePrefix, <<>>), <<"\\">>, <<"/">>)

\* format!("{}/{}/", parent, stem): the output folder, ending in '/'
Folder == <<"o", "/">>

\* PathBuf::from(folder).join(trimmed_path): an absolute argument replaces
\* the base
Join(base, rel) == IF rel # <<>> /\ rel[1] = "/" THEN rel ELSE base \o rel

\* Path::parent: the path without its last component
Parent(p) ==
    LET seps == {i \in 1..Len(p) : p[i] = "/"}
    IN  IF seps = {} THEN <<>>
        ELSE SubSeq(p, 1, (CHOOSE i \in seps : \A j \in seps : j <= i) - 1)

\* Well-formed virtual paths: the drive prefix, then backslash-delimited
\* non-empty components without '\' or '/'.
Components == {<<"a">>, <<"N", ":">>}

RECURSIVE PathsOf(_)
PathsOf(n) ==
    IF n = 1 THEN {DrivePrefix \o c : c \in Components}
    ELSE {p \o <<"\\">> \o c : p \in PathsOf(n - 1), c \in Components}

EntryPaths == UNION {PathsOf(n) : n \in 1..MaxComponents}

FileLists == UNION {[1..n -> EntryPaths] : n \in 0..MaxEntries}

----------------------------------------------------------------------------
(* main of dcx-extract (dcx-extract.rs:15-57).                             *)

\* Flver::from is not running
IdleFlver ==
    /\ data = <<>>
    /\ fpc = "Idle"
    /\ order = "none"
    /\ inner = NoInner
    /\ result = Pending
    /\ failed = "none"
    /\ stages = <<>>
    /\ access = NoAccess

InitExtract ==
    /\ IdleFlver
    /\ mpc = "Start"
    /\ mresult = "Running"
    /\ mfailed = "none"
    /\ mstages = <<>>
    /\ reads = 0
    /\ parsed = FALSE
    /\ files = <<>>
    /\ idx = 1
    /\ outPath = <<>>
    /\ dirs = {}
    /\ created = {}
    /\ writes = {}

\* the `?` operator: main returns the error
ReturnErr(stage) ==
    /\ mpc' = "Exit"
    /\ mresult' = "Err"
    /\ mfailed' = stage

\* unwrap / expect on a failure: main panics
Abort(stage) ==
    /\ mpc' = "Exit"
    /\ mresult' = "Panic"
    /\ mfailed' = stage

\* lines 16-24: open the file and map it
OpenAndMap ==
    /\ mpc = "Start"
    /\ \/ /\ mpc' = "Mapped"
          /\ UNCHANGED <<mresult, mfailed>>
       \/ ReturnErr("Mapped")
    /\ UNCHANGED <<mstages, reads, parsed, files, idx, outPath, dirs, created, writes>>
    /\ UNCHANGED fvars

\* line 26: Dcx::parse(&data).unwrap()
ParseDcx ==
    /\ mpc = "Mapped"
    /\ \/ /\ mpc' = "ContainerParsed"
          /\ mstages' = Append(mstages, "ContainerParsed")
          /\ UNCHANGED <<mresult, mfailed>>
       \/ /\ Abort("ContainerParsed")
          /\ UNCHANGED mstages
    /\ UNCHANGED <<reads, parsed, files, idx, outPath, dirs, created, writes>>
    /\ UNCHANGED fvars

\* Faulty variant: a failed create_decoder is not fatal.
CreateDecoderLenient ==
    /\ mpc = "ContainerParsed"
    /\ \/ /\ mpc' = "DecoderCreated"
          /\ mstages' = Append(mstages, "DecoderCreated")
          /\ UNCHANGED <<mresult, mfailed>>
       \/ /\ mpc' = "DecoderCreated"
          /\ mfailed' = "DecoderCreated"
          /\ UNCHANGED <<mresult, mstages>>
    /\ UNCHANGED <<reads, parsed, files, idx, outPath, dirs, created, writes>>
    /\ UNCHANGED fvars

\* lines 28-29: dcx.create_decoder().expect("Could not create decoder")
CreateDecoder ==
    /\ mpc = "ContainerParsed"
    /\ \/ /\ mpc' = "DecoderCreated"
          /\ mstages' = Append(mstages, "DecoderCreated")
          /\ UNCHANGED <<mresult, mfailed>>
       \/ /\ Abort("DecoderCreated")
          /\ UNCHANGED mstages
    /\ UNCHANGED <<reads, parsed, files, idx, outPath, dirs, created, writes>>
    /\ UNCHANGED fvars

\* lines 31-32: decoder.read_to_end(&mut decompressed)?
Decompress ==
    /\ mpc = "DecoderCreated"
    /\ reads' = reads + 1
    /\ \/ /\ mpc' = "Decompressed"
          /\ mstages' = Append(mstages, "Decompressed")
          /\ UNCHANGED <<mresult, mfailed>>
       \/ /\ ReturnErr("Decompressed")
          /\ UNCHANGED mstages
    /\ UNCHANGED <<parsed, files, idx, outPath, dirs, created, writes>>
    /\ UNCHANGED fvars

\* lines 34-41: BND4::from_reader(&mut cursor)?, then the output folder
ParseArchive ==
    /\ mpc = "Decompressed"
    /\ parsed' = TRUE
    /\ \/ /\ \E fs \in FileLists : files' = fs
          /\ mpc' = "Loop"
          /\ mstages' = Append(mstages, "ArchiveParsed")
          /\ UNCHANGED <<mresult, mfailed>>
       \/ /\ ReturnErr("ArchiveParsed")
          /\ UNCHANGED <<files, mstages>>
    /\ UNCHANGED <<reads, idx, outPath, dirs, created, writes>>
    /\ UNCHANGED fvars

\* lines 43-48: the output path of the entry and its directory
EntryMkdir ==
    /\ mpc = "Loop"
    /\ idx <= Len(files)
    /\ outPath' = Join(Folder, Trimmed(files[idx]))
    /\ \/ /\ dirs' = dirs \cup {Parent(outPath')}
          /\ mpc' = "DirCreated"
          /\ UNCHANGED <<mresult, mfailed>>
       \/ /\ ReturnErr("EntryExtracted")
          /\ UNCHANGED dirs
    /\ UNCHANGED <<mstages, reads, parsed, files, idx, created, writes>>
    /\ UNCHANGED fvars

\* line 50: entry.bytes(&mut cursor)?
EntryBytes ==
    /\ mpc = "DirCreated"
    /\ \/ /\ mpc' = "BytesRead"
          /\ UNCHANGED <<mresult, mfailed>>
       \/ ReturnErr("EntryExtracted")
    /\ UNCHANGED <<mstages, reads, parsed, files, idx, outPath, dirs, created, writes>>
    /\ UNCHANGED fvars

\* line 52: std::fs::File::create(&output_path)?
EntryCreate ==
    /\ mpc = "BytesRead"
    /\ \/ /\ created' = created \cup {outPath}
          /\ mpc' = "FileCreated"
          /\ UNCHANGED <<mresult, mfailed>>
       \/ /\ ReturnErr("EntryExtracted")
          /\ UNCHANGED created
    /\ UNCHANGED <<mstages, reads, parsed, files, idx, outPath, dirs, writes>>
    /\ UNCHANGED fvars

\* line 53: file.write_all(&bytes)?, then the next entry
EntryWrite ==
    /\ mpc = "FileCreated"
    /\ \/ /\ writes' = writes \cup {[path |-> outPath, entry |-> idx]}
          /\ idx' = idx + 1
          /\ mpc' = "Loop"
          /\ mstages' = Append(mstages, "EntryExtracted")
          /\ UNCHANGED <<mresult, mfailed>>
       \/ /\ ReturnErr("EntryExtracted")
          /\ UNCHANGED <<writes, idx, mstages>>
    /\ UNCHANGED <<reads, parsed, files, outPath, dirs, created>>
    /\ UNCHANGED fvars

\* lines 54-56: the loop is over, Ok(())
LoopDone ==
    /\ mpc = "Loop"
    /\ idx > Len(files)
    /\ mpc' = "Exit"
    /\ mresult' = "Ok"
    /\ UNCHANGED <<mfailed, mstages, reads, parsed, files, idx, outPath, dirs,
                   created, writes>>
    /\ UNCHANGED fvars

NextExtract ==
    \/ OpenAndMap
    \/ ParseDcx
    \/ CreateDecoder
    \/ Decompress
    \/ ParseArchive
    \/ EntryMkdir
    \/ EntryBytes
    \/ EntryCreate
    \/ EntryWrite
    \/ LoopDone

SpecExtract == InitExtract /\ [][NextExtract]_vars

----------------------------------------------------------------------------
(* Properties of Flver::from, checked under SpecFlver.                     *)

FlverDone == fpc \in {"Ready", "Error", "Panic"}

\* The big-endian marker of the FLVER format, "B\0".  The code never names
\* it: mod.rs:68 compares against the little-endian marker only.
BigMarker == <<66, 0>>

\* C1: for every buffer shorter than the fixed header (the empty buffer and
\* buffers of fewer than 8 bytes included), Flver::from ends in a returned
\* error and never in a panic.
C1_ShortBufferReturnsError ==
    (FlverDone /\ Len(data) < HeaderSize) =>
        (fpc = "Error" /\ result.kind = "Err")

\* C2: only the two recognised markers are mapped to a byte order; with any
\* other marker the parse fails and no view of either byte order is
\* returned.
C2_UnknownMarkerRejected ==
    (FlverDone /\ Len(data) >= PrefixLen /\ ReadMagicOk(data)) =>
        /\ (result.kind = "Ok" /\ result.variant = "LE") => Marker(data) = LittleMarker
        /\ (result.kind = "Ok" /\ result.variant = "BE") => Marker(data) = BigMarker
        /\ Marker(data) \notin {LittleMarker, BigMarker} => result.kind = "Err"

C4_DummyIndexChecked ==
    (access.kind # "none") =>
        LET count == result.view.dummys.count
            first == result.view.dummys.off
        IN  /\ access.index >= count => access.kind = "Panic"
            /\ access.index < count =>
                  /\ access.kind = "Record"
                  /\ access.off = first + (access.index * RecordSize)
            /\ access.kind = "Record" =>
                  /\ first <= access.off
                  /\ access.off + RecordSize <= first + (count * RecordSize)
                  /\ access.off + RecordSize <= Len(data)

C4_Witness ==
    /\ access.kind = "Panic"
    /\ result.view.dummys.count >= 1
    /\ access.index >= result.view.dummys.count

FlverOrder ==
    <<"MagicValidated", "EndiannessDetected", "HeaderCast", "TrailingArraysCast">>

\* C5: the stages run in the order magic validation, endianness detection,
\* header cast, dummy-array cast, none skipped or repeated; a Flver is
\* returned only after all four, and a failed parse hands the caller no view.
C5_StagesInOrder ==
    /\ Len(stages) <= Len(FlverOrder)
    /\ stages = SubSeq(FlverOrder, 1, Len(stages))
    /\ result.kind = "Ok" =>
          /\ fpc = "Ready"
          /\ stages = FlverOrder
          /\ result.view.some
          /\ result.view = Parse(Endianness(data), data)
          /\ result.variant = Endianness(data)
    /\ fpc = "Ready" => result.kind = "Ok"
    /\ result.kind # "Ok" => (~result.view.some /\ result.variant = "none")
    /\ fpc \in {"Error", "Panic"} => (failed # "none" /\ result.kind \in {"Err", "Panic"})

C5_Witness ==
    /\ fpc = "Ready"
    /\ stages = FlverOrder
    /\ result.view.dummys.count >= 1

\* C6: a failed Flver::from returns the error of the stage that failed: a
\* magic mismatch as a malformed-header error, a buffer too short for the
\* header or for the dummy array as a truncated-buffer error, never the
\* error of another cause.
C6_ErrorNamesItsCause ==
    (fpc = "Error") =>
        /\ result.kind = "Err"
        /\ failed = "MagicValidated" => result.err = "MalformedHeader"
        /\ failed \in {"HeaderCast", "TrailingArraysCast"} =>
              result.err = "TruncatedBuffer"

\* the same logical fields under the other byte order: the marker exchanged
\* and the bytes of every u32 field reversed
Twin(d) ==
    [i \in 1..Len(d) |->
        IF i = Len(Magic) + 1 THEN (IF d[i] = LittleMarker[1] THEN BigMarker[1]
                                    ELSE LittleMarker[1])
        ELSE IF i \in (VersionOffset + 1)..(VersionOffset + 4)
             THEN d[(2 * VersionOffset) + 5 - i]
        ELSE IF i \in (DummyCountOffset + 1)..(DummyCountOffset + 4)
             THEN d[(2 * DummyCountOffset) + 5 - i]
        ELSE d[i]]

\* C7: a little-endian and a big-endian buffer with the same logical
\* (version, dummy_count) parse to views of the two variants whose version()
\* and dummy_count() agree and whose dummy arrays have the same length.
C7_EndianRoundTrip ==
    (fpc = "Ready" /\ Marker(data) \in {LittleMarker, BigMarker}) =>
        LET twin == Twin(data)
            other == From(twin)
        IN  /\ other.kind = "Ok"
            /\ other.variant # result.variant
            /\ Version(other, twin) = Version(result, data)
            /\ DummyCount(other, twin) = DummyCount(result, data)
            /\ other.view.dummys.count = result.view.dummys.count
            /\ result.view.dummys.count = DummyCount(result, data)

C7_Witness ==
    /\ fpc = "Ready"
    /\ Marker(data) = BigMarker
    /\ result.variant = "BE"
    /\ Version(result, data) = 131098
    /\ DummyCount(result, data) = 2

----------------------------------------------------------------------------
(* Properties of dcx-extract, checked under SpecExtract.                   *)

\* the drive prefix removed at the start of the path only
StripPrefix(path) ==
    IF Len(path) >= Len(DrivePrefix) /\ SubSeq(path, 1, Len(DrivePrefix)) = DrivePrefix
    THEN SubSeq(path, Len(DrivePrefix) + 1, Len(path))
    ELSE path

\* C8: the relative output path of an entry is its virtual path with the
\* leading drive prefix removed (at the start only) and every backslash
\* replaced by '/', nothing else removed or changed.
C8_OnlyLeadingPrefixStripped ==
    (mpc \in {"DirCreated", "BytesRead", "FileCreated"}) =>
        outPath = Join(Folder, Replace(StripPrefix(files[idx]), <<"\\">>, <<"/">>))

\* the relative path behind an output path, turned back into a virtual path
Denormalize(out) ==
    DrivePrefix \o Replace(SubSeq(out, Len(Folder) + 1, Len(out)), <<"/">>, <<"\\">>)

\* C9: on well-formed virtual paths normalisation is reversible and two
\* distinct entry paths never give the same output file.
C9_NormalizationReversible ==
    /\ \A w \in writes : Denormalize(w.path) = files[w.entry]
    /\ \A w1, w2 \in writes :
          files[w1.entry] # files[w2.entry] => w1.path # w2.path

MainOrder == <<"ContainerParsed", "DecoderCreated", "Decompressed", "ArchiveParsed">>

\* C10: main runs container parse, decoder creation, decompression, archive
\* parse and per-entry extraction in this order, each only after the earlier
\* ones succeeded; when create_decoder fails nothing is read, no archive is
\* parsed and no directory or file is created.
C10_StagesGateEffects ==
    /\ \A i \in 1..Len(mstages) :
          mstages[i] = IF i <= Len(MainOrder) THEN MainOrder[i] ELSE "EntryExtracted"
    /\ reads > 0 => Len(mstages) >= 2
    /\ parsed => (Len(mstages) >= 3 /\ reads > 0)
    /\ (files # <<>> \/ dirs # {} \/ created # {} \/ writes # {}) =>
          (Len(mstages) >= Len(MainOrder) /\ parsed)
    /\ Len(mstages) >= Len(MainOrder) => idx = Len(mstages) - Len(MainOrder) + 1
    /\ \A w \in writes : w.entry < idx /\ w.path \in created /\ Parent(w.path) \in dirs
    /\ mresult = "Ok" => Len(mstages) = Len(MainOrder) + Len(files)
    /\ mfailed = "DecoderCreated" =>
          /\ mresult = "Panic"
          /\ reads = 0
          /\ ~parsed
          /\ files = <<>>
          /\ dirs = {}
          /\ created = {}
          /\ writes = {}

C10_Witness ==
    /\ mfailed = "DecoderCreated"
    /\ mresult = "Panic"
    /\ mstages = <<"ContainerParsed">>

====
